---- MODULE Spec2Model ----
(***************************************************************************)
(* Verification model of the student dashboard: the focus planner's        *)
(* Pomodoro timer (SimpleFocusPlanner), the dashboard's filter/sort view   *)
(* (Dashboard.filteredAssignments) and the memoized recommendation         *)
(* bucketer (AssignmentRecommendations.recommendations).                   *)
(***************************************************************************)
EXTENDS Integers, Sequences, FiniteSets, TLC

VARIABLES
    \* ---- SimpleFocusPlanner (React state and refs) ----
    timeRemaining,        \* useState(25 * 60), seconds
    isTimerRunning,       \* useState(false)
    timerType,            \* 'work' | 'short_break' | 'long_break'
    timerProgress,        \* useState(100)
    sessionsCompleted,    \* useState(0)
    currentTaskIndex,     \* useState(0), 0-based as in the source
    dailyTasks,           \* useState<Task[]>([])
    isLoadingAssignments, \* the mount-time fetchAssignments is in flight
    workedOn,             \* history: work sessions completed per task while current
    timerRef,             \* useRef: TRUE when an interval handle is stored
    \* ---- Dashboard (React state, and the view of the last render) ----
    assignments,          \* useState<Assignment[]>([])
    selectedCourse,       \* useState<number | null>(null)
    sortBy,               \* "priority" | "due_date" | "points"
    searchQuery,          \* useState("")
    filteredAssignments,  \* the filtered and sorted view of the last render
    delivered,            \* payload of the last successful assignments response
    courses,              \* useState<Course[]>([])
    loading,              \* useState(true)
    error,                \* useState<string | null>(null)
    coursesPending,       \* courses requests in flight
    assignmentsPending,   \* assignments requests in flight
    \* ---- AssignmentRecommendations (memoized version) ----
    recAssignments,       \* useState<Assignment[]>([])
    recLoading,           \* useState(true)
    recommendations,      \* useMemo(..., [assignments])
    recNow,               \* the clock value the memo last read (new Date())
    \* ---- AssignmentRecommendations (version computing in the fetch) ----
    implementation,       \* which version of the component the page mounts
    componentLoading,     \* useState(true)
    componentRecommendations, \* useState<Recommendation[]>([])
    recCourseId,          \* the prop courseId (selectedCourse || 0)
    recInFlight,          \* course ids of the panel's requests in flight
    recError,             \* useState<string | null>(null)
    \* ---- PomodoroPage ----
    todoList,             \* useState<TodoItem[]>([])
    todoLoading,          \* useState(true)
    \* ---- AssignmentCard, one per card of the list ----
    cardAssignment,       \* the prop `assignment` (priority, summary)
    showSummary,          \* useState(false)
    isLoading,            \* useState(false)
    summary,              \* useState<string | null>(assignment.summary)
    pending,              \* summary requests in flight
    priorityLabel,        \* the priority badge of the last render
    summaryPanel,         \* the summary content of the last render
    endpointSilent,       \* the summary endpoint never answers
    \* ---- AuthProvider and the browser's localStorage ----
    isAuthenticated,      \* useState(false)
    token,                \* useState<string | null>(null)
    userId,               \* useState<number | null>(null)
    localStorage,         \* key |-> stored string, NULLSTR when absent
    route,                \* the page the router shows or was last sent to
    assignmentsError      \* the planner's useState<string | null>(null)

plannerVars == <<timeRemaining, isTimerRunning, timerType, timerProgress,
                 sessionsCompleted, currentTaskIndex, dailyTasks,
                 isLoadingAssignments, timerRef, workedOn>>

fetchVars == <<courses, loading, error, coursesPending, assignmentsPending>>

dashboardVars == <<assignments, selectedCourse, sortBy, searchQuery,
                   filteredAssignments, delivered, fetchVars>>

recVars == <<recAssignments, recLoading, recommendations, recNow,
             implementation, componentLoading, componentRecommendations,
             recCourseId, recInFlight, recError>>

pomodoroVars == <<todoList, todoLoading>>

cardVars == <<cardAssignment, showSummary, isLoading, summary, pending,
              priorityLabel, summaryPanel, endpointSilent>>

authVars == <<isAuthenticated, token, userId, localStorage, route,
              assignmentsError>>

vars == <<plannerVars, dashboardVars, recVars, pomodoroVars, cardVars,
          authVars>>

\* What the actions of one component leave alone: the other components.
nonPlannerVars == <<dashboardVars, recVars, pomodoroVars, cardVars, authVars>>
nonDashboardVars == <<plannerVars, recVars, pomodoroVars, cardVars, authVars>>
nonRecVars == <<plannerVars, dashboardVars, pomodoroVars, cardVars, authVars>>
nonPomodoroVars == <<plannerVars, dashboardVars, recVars, cardVars, authVars>>
nonCardVars == <<plannerVars, dashboardVars, recVars, pomodoroVars, authVars>>
nonAuthVars == <<plannerVars, dashboardVars, recVars, pomodoroVars, cardVars>>

\* The absent value (null) of an optional number; every number the model
\* draws for such a field is greater.
NULL == -1000

\* ---------------------------------------------------------------------------
\* Bounds of the model
\* ---------------------------------------------------------------------------
MaxSessions == 4      \* completed work sessions explored
MaxTasks == 2         \* assignments delivered to the planner's fetch
MaxAssignments == 3   \* assignments delivered to the dashboard's fetch
MaxRecs == 4          \* assignments delivered to the recommendations' fetch
MaxTodo == 2          \* assignments delivered to the Pomodoro page's fetch
MaxInFlight == 1      \* requests of one kind the dashboard has in flight
MaxTokenLen == 2      \* characters of an access token
MaxRecInFlight == 2   \* requests the recommendations panel has in flight

\* ---------------------------------------------------------------------------
\* SimpleFocusPlanner: settings and pure helpers
\* ---------------------------------------------------------------------------
pomodoroSettings ==
    [work_duration |-> 25, short_break |-> 5, long_break |-> 15,
     sessions_before_long_break |-> 4]

SecondsPerMinute == 60

\* `total` of the timer effect, and the reload value used by resetTimer and
\* by the completion branch: the full duration of a phase in seconds.
total(type) ==
    IF type = "work" THEN pomodoroSettings.work_duration * SecondsPerMinute
    ELSE IF type = "short_break" THEN pomodoroSettings.short_break * SecondsPerMinute
    ELSE pomodoroSettings.long_break * SecondsPerMinute

Max(a, b) == IF a >= b THEN a ELSE b
Min(a, b) == IF a <= b THEN a ELSE b

\* Math.ceil(a / b) for a >= 0, b > 0
Ceil(a, b) == (a + b - 1) \div b

\* Math.ceil(task.estimated_duration / pomodoroSettings.work_duration)
sessionsNeeded(task) ==
    Ceil(task.estimated_duration, pomodoroSettings.work_duration)

\* Points values of the assignments the planner's fetch may deliver.
PlannerPoints == {7}

\* estimated_duration: Math.max(25, Math.min(50, Math.round((points || 10) * 5)))
estimated_duration(points) ==
    Max(25, Min(50, (IF points = NULL \/ points = 0 THEN 10 ELSE points) * 5))

\* The snapshot of the component's state and ref a handler or effect works on.
PlannerState ==
    [timeRemaining |-> timeRemaining, isTimerRunning |-> isTimerRunning,
     timerType |-> timerType, timerProgress |-> timerProgress,
     sessionsCompleted |-> sessionsCompleted,
     currentTaskIndex |-> currentTaskIndex, dailyTasks |-> dailyTasks,
     isLoadingAssignments |-> isLoadingAssignments, timerRef |-> timerRef,
     workedOn |-> workedOn]

\* The React state of a snapshot (everything but the ref): a commit happens
\* only when a setter changed one of these.
ReactState(s) == [s EXCEPT !.timerRef = FALSE, !.workedOn = <<>>]

\* setTimerProgress(Math.floor((timeRemaining / total) * 100))
progress(s) == (s.timeRemaining * 100) \div total(s.timerType)

\* The guard of the completion branch: timeRemaining === 0 && timerRef.current
completionDue(s) == s.timeRemaining = 0 /\ s.timerRef

\* Mutant: the completion clears the interval but leaves the running flag set.
stopTimer_KeepsRunning(s) == [s EXCEPT !.timerRef = FALSE]

\* clearInterval(timerRef.current); timerRef.current = null;
\* setIsTimerRunning(false)
stopTimer(s) == [s EXCEPT !.timerRef = FALSE, !.isTimerRunning = FALSE]

\* Mutant: the increment is lost.
newSessionsCompleted_NoIncrement(s) == s.sessionsCompleted

\* const newSessionsCompleted = sessionsCompleted + 1
newSessionsCompleted(s) == s.sessionsCompleted + 1

\* Mutant: the long break is taken one session early.
nextBreakType_OffByOne(n) ==
    IF (n + 1) % pomodoroSettings.sessions_before_long_break = 0
    THEN "long_break" ELSE "short_break"

\* "Determine next break type"
nextBreakType(n) ==
    IF n % pomodoroSettings.sessions_before_long_break = 0
    THEN "long_break" ELSE "short_break"

\* Mutant: the index moves on from the last task too.
advanceTask_PastLast(s, n) ==
    LET i == s.currentTaskIndex IN
    IF Len(s.dailyTasks) > 0 /\ i < Len(s.dailyTasks)
    THEN IF n % sessionsNeeded(s.dailyTasks[i + 1]) = 0
         THEN [s EXCEPT !.dailyTasks[i + 1].completed = TRUE,
                        !.currentTaskIndex = i + 1]
         ELSE s
    ELSE s

\* "Mark current task as completed if we've done enough sessions for it",
\* then "Move to next task".
advanceTask(s, n) ==
    LET i == s.currentTaskIndex IN
    IF Len(s.dailyTasks) > 0 /\ i < Len(s.dailyTasks)
    THEN IF n % sessionsNeeded(s.dailyTasks[i + 1]) = 0
         THEN [s EXCEPT !.dailyTasks[i + 1].completed = TRUE,
                        !.currentTaskIndex =
                            IF i < Len(s.dailyTasks) - 1 THEN i + 1 ELSE i]
         ELSE s
    ELSE s

\* History: a work session completes with dailyTasks[currentTaskIndex] as
\* the current task (the test of the completion branch: the list is not
\* empty and the index is inside it).  Nothing is recorded while workedOn is
\* the empty sequence.
sessionWorked(s) ==
    LET i == s.currentTaskIndex IN
    IF s.workedOn # <<>> /\ Len(s.dailyTasks) > 0 /\ i < Len(s.dailyTasks)
    THEN [s EXCEPT !.workedOn[i + 1] = @ + 1]
    ELSE s

\* First effect ("Timer effects"): progress bar, then the completion branch.
TimerEffect(s) ==
    LET p == [s EXCEPT !.timerProgress = progress(s)] IN
    IF completionDue(s)
    THEN IF s.timerType = "work"
         THEN LET n == newSessionsCompleted(s)
                  brk == [stopTimer(p) EXCEPT
                             !.sessionsCompleted = n,
                             !.timerType = nextBreakType(n),
                             !.timeRemaining = total(nextBreakType(n))]
              IN advanceTask(sessionWorked(brk), n)
         ELSE [stopTimer(p) EXCEPT !.timerType = "work",
                                   !.timeRemaining = total("work")]
    ELSE p

\* Cleanup of the second effect ("Start/stop timer"), run before the effects
\* of a commit in which isTimerRunning changed.
IntervalCleanup(s) == [s EXCEPT !.timerRef = FALSE]

\* Body of the second effect: it sees the isTimerRunning of the render that
\* is being committed (`running`).
IntervalEffect(s, running) ==
    IF running THEN [s EXCEPT !.timerRef = TRUE]
    ELSE IF s.timerRef THEN [s EXCEPT !.timerRef = FALSE]
    ELSE s

\* One commit of a render of state `s` following the committed state `prev`:
\* cleanups first, then the effects in declaration order.  The first effect
\* runs on every commit (pomodoroSettings is a fresh object each render).
\* State set by an effect causes a further render, committed the same way.
RECURSIVE Commit(_, _)
Commit(s, prev) ==
    LET changedRunning == s.isTimerRunning # prev.isTimerRunning
        c == IF changedRunning THEN IntervalCleanup(s) ELSE s
        e1 == TimerEffect(c)
        e2 == IF changedRunning THEN IntervalEffect(e1, s.isTimerRunning) ELSE e1
    IN IF ReactState(e2) # ReactState(s) THEN Commit(e2, s) ELSE e2

\* A handler produced snapshot `s` from the current state: React bails out
\* (no render, no effects) when no state value changed.
AfterUpdate(s) ==
    IF ReactState(s) = ReactState(PlannerState) THEN s
    ELSE Commit(s, PlannerState)

Install(s) ==
    /\ s.sessionsCompleted <= MaxSessions
    /\ timeRemaining' = s.timeRemaining
    /\ isTimerRunning' = s.isTimerRunning
    /\ timerType' = s.timerType
    /\ timerProgress' = s.timerProgress
    /\ sessionsCompleted' = s.sessionsCompleted
    /\ currentTaskIndex' = s.currentTaskIndex
    /\ dailyTasks' = s.dailyTasks
    /\ isLoadingAssignments' = s.isLoadingAssignments
    /\ timerRef' = s.timerRef
    /\ workedOn' = s.workedOn
    /\ UNCHANGED nonPlannerVars

\* ---------------------------------------------------------------------------
\* SimpleFocusPlanner: handlers
\* ---------------------------------------------------------------------------
toggleTimerResult(s) == [s EXCEPT !.isTimerRunning = ~s.isTimerRunning]

toggleTimer == Install(AfterUpdate(toggleTimerResult(PlannerState)))

\* Mutant: reset always reloads the work duration.
resetTimerResult_WorkOnly(s) ==
    [s EXCEPT !.timerRef = FALSE,
              !.isTimerRunning = FALSE,
              !.timeRemaining = total("work")]

resetTimerResult(s) ==
    [s EXCEPT !.timerRef = FALSE,
              !.isTimerRunning = FALSE,
              !.timeRemaining = total(s.timerType)]

resetTimer == Install(AfterUpdate(resetTimerResult(PlannerState)))

skipTimerResult(s) == [s EXCEPT !.timeRemaining = 0]

skipTimer == Install(AfterUpdate(skipTimerResult(PlannerState)))

\* Mutant: the interval callback without the clamp at 0.
tickResult_Unclamped(s) == [s EXCEPT !.timeRemaining = s.timeRemaining - 1]

\* The interval callback: setTimeRemaining(prev => Math.max(0, prev - 1)).
\* It fires only while an interval handle is installed.
tickResult(s) == [s EXCEPT !.timeRemaining = Max(0, s.timeRemaining - 1)]

Tick ==
    /\ timerRef
    /\ Install(AfterUpdate(tickResult(PlannerState)))

\* Mutant: a click selects the task even when it is completed.
selectTaskResult_AnyTask(s, index) == [s EXCEPT !.currentTaskIndex = index]

\* List.Item onClick: !task.completed && setCurrentTaskIndex(index)
selectTaskResult(s, index) ==
    IF ~s.dailyTasks[index + 1].completed
    THEN [s EXCEPT !.currentTaskIndex = index]
    ELSE s

selectTask ==
    \E index \in 0 .. Len(dailyTasks) - 1 :
        Install(AfterUpdate(selectTaskResult(PlannerState, index)))

toggleTaskCompletionResult(s, taskIndex) ==
    LET updatedTasks ==
            [s.dailyTasks EXCEPT ![taskIndex + 1].completed =
                                     ~s.dailyTasks[taskIndex + 1].completed]
    IN IF ~updatedTasks[taskIndex + 1].completed /\ taskIndex # s.currentTaskIndex
       THEN [s EXCEPT !.dailyTasks = updatedTasks, !.currentTaskIndex = taskIndex]
       ELSE [s EXCEPT !.dailyTasks = updatedTasks]

\* setDailyTasks receives a fresh array, so this handler always renders.
toggleTaskCompletion ==
    \E taskIndex \in 0 .. Len(dailyTasks) - 1 :
        Install(Commit(toggleTaskCompletionResult(PlannerState, taskIndex),
                       PlannerState))

\* generateDailyTasks: the assignments, ordered by due date and priority, are
\* cut to the top 5 and mapped to tasks.  Only the fields the timer reads are
\* kept (estimated_duration, completed); `points` lists the points_possible
\* of the assignments in that order.
generateDailyTasks(points) ==
    [k \in 1 .. Min(5, Len(points)) |->
        [estimated_duration |-> estimated_duration(points[k]),
         completed |-> FALSE]]

PointLists == UNION {[1 .. n -> PlannerPoints] : n \in 0 .. MaxTasks}

\* The mount-time fetchAssignments (it found a token under "canvasToken")
\* resolves with an array of assignments.
fetchAssignmentsResolve ==
    /\ isLoadingAssignments
    /\ \E points \in PointLists :
         Install(Commit([PlannerState EXCEPT
                            !.dailyTasks = generateDailyTasks(points),
                            !.isLoadingAssignments = FALSE],
                        PlannerState))

PlannerInit ==
    /\ timeRemaining = 25 * 60
    /\ isTimerRunning = FALSE
    /\ timerType = "work"
    /\ timerProgress = 100
    /\ sessionsCompleted = 0
    /\ currentTaskIndex = 0
    /\ dailyTasks = <<>>
    /\ isLoadingAssignments = TRUE
    /\ timerRef = FALSE
    /\ workedOn \in {<<>>, [i \in 1 .. MaxTasks |-> 0]}

\* The planner with no history kept.
PlannerAtRest == PlannerInit /\ workedOn = <<>>

\* The handlers and the mount-time fetch; the phases are ended by skipping.
PlannerQuotaNext ==
    \/ toggleTimer
    \/ resetTimer
    \/ skipTimer
    \/ selectTask
    \/ toggleTaskCompletion
    \/ fetchAssignmentsResolve

PlannerNext ==
    \/ toggleTimer
    \/ resetTimer
    \/ skipTimer
    \/ Tick
    \/ selectTask
    \/ toggleTaskCompletion
    \/ fetchAssignmentsResolve

\* ---------------------------------------------------------------------------
\* Shared helpers: nullable values, strings, Array.prototype.sort
\* ---------------------------------------------------------------------------
\* The absent value (null) of an optional string; strings are sequences of
\* the characters of Alphabet.
NULLSTR == <<"null">>

Alphabet == {"a", "b", "A", "B"}

\* `x || 0` on an optional number
OrZero(x) == IF x = NULL THEN 0 ELSE x

\* Mutant: the case conversion is lost.
toLowerCase_Identity(str) == str

\* String.prototype.toLowerCase
lowerChar(c) == CASE c = "A" -> "a" [] c = "B" -> "b" [] OTHER -> c
toLowerCase(str) == [i \in 1 .. Len(str) |-> lowerChar(str[i])]

\* String.prototype.includes
includes(str, q) ==
    \E i \in 0 .. Len(str) - Len(q) : SubSeq(str, i + 1, i + Len(q)) = q

\* Mutant: an absent due date, priority or points value counts as 0 in every
\* comparator, so that a record without due date sorts before the dated ones.
compare_AbsentIsZero(kind, a, b) ==
    CASE kind = "priority" -> OrZero(b.priority) - OrZero(a.priority)
      [] kind = "due_date" -> OrZero(a.due_at) - OrZero(b.due_at)
      [] kind = "points" -> OrZero(b.points_possible) - OrZero(a.points_possible)
      [] kind = "urgent" -> OrZero(a.due_at) - OrZero(b.due_at)
      [] kind = "high_impact" ->
            OrZero(b.points_possible) - OrZero(a.points_possible)
      [] kind = "quick_wins" ->
            OrZero(a.points_possible) - OrZero(b.points_possible)
      [] kind = "sortedByDueDate" -> a.due_at - b.due_at
      [] kind = "sortedByPriority" -> b.priority - a.priority

\* The comparators handed to Array.prototype.sort; the result's sign is what
\* sort reads (a NaN result counts as 0).
compare(kind, a, b) ==
    CASE kind = "priority" -> OrZero(b.priority) - OrZero(a.priority)
      [] kind = "due_date" ->
            \* dateA - dateB with Infinity for an absent due date
            IF a.due_at = NULL /\ b.due_at = NULL THEN 0
            ELSE IF a.due_at = NULL THEN 1
            ELSE IF b.due_at = NULL THEN -1
            ELSE a.due_at - b.due_at
      [] kind = "points" -> OrZero(b.points_possible) - OrZero(a.points_possible)
      [] kind = "urgent" ->
            IF a.due_at = NULL THEN 1
            ELSE IF b.due_at = NULL THEN -1
            ELSE a.due_at - b.due_at
      [] kind = "high_impact" ->
            OrZero(b.points_possible) - OrZero(a.points_possible)
      [] kind = "quick_wins" ->
            OrZero(a.points_possible) - OrZero(b.points_possible)
      [] kind = "sortedByDueDate" -> a.due_at - b.due_at
      [] kind = "sortedByPriority" -> b.priority - a.priority

\* Array.prototype.sort is stable: an element is placed after every earlier
\* element that does not compare greater than it.
RECURSIVE insertSorted(_, _, _)
insertSorted(sorted, x, kind) ==
    IF sorted = <<>> THEN <<x>>
    ELSE LET last == sorted[Len(sorted)] IN
         IF compare(kind, last, x) > 0
         THEN Append(insertSorted(SubSeq(sorted, 1, Len(sorted) - 1), x, kind), last)
         ELSE Append(sorted, x)

RECURSIVE sortFrom(_, _, _, _)
sortFrom(sorted, arr, k, kind) ==
    IF k > Len(arr) THEN sorted
    ELSE sortFrom(insertSorted(sorted, arr[k], kind), arr, k + 1, kind)

sort(arr, kind) == sortFrom(<<>>, arr, 1, kind)

\* Mutant: the cut is lost.
slice0_NoCut(arr, n) == arr

\* Array.prototype.slice(0, n)
slice0(arr, n) == SubSeq(arr, 1, Min(n, Len(arr)))

Range(seq) == {seq[i] : i \in 1 .. Len(seq)}

\* The sequences of at most n distinct elements of S
DistinctSeqs(S, n) ==
    UNION {{q \in [1 .. m -> S] : \A i, j \in 1 .. m : i # j => q[i] # q[j]}
              : m \in 0 .. n}

\* ---------------------------------------------------------------------------
\* Dashboard: filteredAssignments
\* ---------------------------------------------------------------------------
\* The assignment records the assignments endpoint may deliver (summary, which
\* the view never reads, is left out).
DashboardRecords ==
    { [id |-> 1, name |-> <<"A", "b">>, description |-> NULLSTR,
       due_at |-> 2, points_possible |-> 10, course_id |-> 1,
       course_name |-> <<"a">>, priority |-> 5],
      [id |-> 2, name |-> <<"b">>, description |-> <<"b", "A">>,
       due_at |-> NULL, points_possible |-> NULL, course_id |-> 1,
       course_name |-> <<"a">>, priority |-> NULL],
      [id |-> 3, name |-> <<"B", "B">>, description |-> <<>>,
       due_at |-> 1, points_possible |-> 20, course_id |-> 2,
       course_name |-> <<"b">>, priority |-> 5],
      [id |-> 4, name |-> <<"a">>, description |-> NULLSTR,
       due_at |-> NULL, points_possible |-> 0, course_id |-> 2,
       course_name |-> <<"b", "b">>, priority |-> 0],
      [id |-> 5, name |-> <<"b", "a">>, description |-> <<"A", "B">>,
       due_at |-> 2, points_possible |-> 20, course_id |-> 2,
       course_name |-> <<"b">>, priority |-> 9] }

\* The options of the course select: the ids of the fetched courses, which
\* are positive (the select yields null for "All Favorite Courses").
CourseIds == {1, 2, 3}

\* Texts typed into the search box.
SearchTexts == {<<>>, <<"a">>, <<"A", "b">>, <<"B">>, <<"b", "b">>}

\* The callback of assignments.filter(...)
passesFilter(assignment, course, query0) ==
    IF course # NULL /\ course # 0 /\ assignment.course_id # course
    THEN FALSE
    ELSE IF query0 # <<>>
    THEN LET query == toLowerCase(query0) IN
         \/ includes(toLowerCase(assignment.name), query)
         \/ includes(toLowerCase(assignment.course_name), query)
         \/ /\ assignment.description # NULLSTR
            /\ assignment.description # <<>>
            /\ includes(toLowerCase(assignment.description), query)
    ELSE TRUE

\* Array.prototype.filter: a new array, the receiver is untouched.
filter(arr, course, query0) ==
    SelectSeq(arr, LAMBDA a : passesFilter(a, course, query0))

\* Mutant: the sort is applied to the state array itself (sort works in
\* place on its receiver) and the filter afterwards.
renderView_SortsSource(arr, course, query0, key) ==
    [assignments |-> sort(arr, key),
     filteredAssignments |-> filter(sort(arr, key), course, query0)]

\* assignments.filter(...).sort(...) of one render: sort works in place on
\* the array filter returned.  The result names the state array as the
\* render leaves it and the view.
renderView(arr, course, query0, key) ==
    [assignments |-> arr,
     filteredAssignments |-> sort(filter(arr, course, query0), key)]

DashboardRender(arr, course, query0, key) ==
    LET r == renderView(arr, course, query0, key) IN
    /\ assignments' = r.assignments
    /\ filteredAssignments' = r.filteredAssignments
    /\ selectedCourse' = course
    /\ searchQuery' = query0
    /\ sortBy' = key
    /\ UNCHANGED nonDashboardVars

\* The absent value (null) of the error string.
NoError == "null"

\* The course lists the courses endpoint may deliver.
CourseLists == {<<[id |-> 1]>>, <<[id |-> 2], [id |-> 1]>>}

\* fetchAssignments resolves with a 2xx response: setAssignments(data);
\* setLoading(false)
fetchAssignmentsSuccess ==
    \E data \in DistinctSeqs(DashboardRecords, MaxAssignments) :
        /\ assignmentsPending > 0
        /\ assignmentsPending' = assignmentsPending - 1
        /\ delivered' = data
        /\ loading' = FALSE
        /\ UNCHANGED <<courses, error, coursesPending>>
        /\ DashboardRender(data, selectedCourse, searchQuery, sortBy)

\* Mutant: the failure empties the list.
failedAssignments_Cleared(arr) == <<>>

\* The assignments after a failed fetchAssignments: the catch block does not
\* write them.
failedAssignments(arr) == arr

\* fetchAssignments fails (the fetch rejects or the status is not 2xx):
\* setError("Failed to load assignments"); setLoading(false)
fetchAssignmentsFailure ==
    /\ assignmentsPending > 0
    /\ assignmentsPending' = assignmentsPending - 1
    /\ error' = "Failed to load assignments"
    /\ loading' = FALSE
    /\ UNCHANGED <<delivered, courses, coursesPending>>
    /\ DashboardRender(failedAssignments(assignments), selectedCourse,
                       searchQuery, sortBy)

\* fetchCourses resolves with a 2xx response: setCourses(data)
fetchCoursesSuccess ==
    \E data \in CourseLists :
        /\ coursesPending > 0
        /\ coursesPending' = coursesPending - 1
        /\ courses' = data
        /\ UNCHANGED <<delivered, loading, error, assignmentsPending>>
        /\ DashboardRender(assignments, selectedCourse, searchQuery, sortBy)

\* fetchCourses fails: setError("Failed to load courses")
fetchCoursesFailure ==
    /\ coursesPending > 0
    /\ coursesPending' = coursesPending - 1
    /\ error' = "Failed to load courses"
    /\ UNCHANGED <<delivered, courses, loading, assignmentsPending>>
    /\ DashboardRender(assignments, selectedCourse, searchQuery, sortBy)

\* The fetch effect runs again (isAuthenticated, router or token changed,
\* the user still authenticated): fetchCourses(); fetchAssignments(), which
\* starts with setLoading(true).  Requests in flight are not cancelled.
dashboardEffect ==
    /\ coursesPending < MaxInFlight
    /\ assignmentsPending < MaxInFlight
    /\ coursesPending' = coursesPending + 1
    /\ assignmentsPending' = assignmentsPending + 1
    /\ loading' = TRUE
    /\ UNCHANGED <<delivered, courses, error>>
    /\ DashboardRender(assignments, selectedCourse, searchQuery, sortBy)

setSelectedCourse ==
    \E course \in CourseIds \cup {NULL} :
        /\ course # selectedCourse
        /\ UNCHANGED <<delivered, fetchVars>>
        /\ DashboardRender(assignments, course, searchQuery, sortBy)

setSearchQuery ==
    \E query0 \in SearchTexts :
        /\ query0 # searchQuery
        /\ UNCHANGED <<delivered, fetchVars>>
        /\ DashboardRender(assignments, selectedCourse, query0, sortBy)

setSortBy ==
    \E key \in {"priority", "due_date", "points"} :
        /\ key # sortBy
        /\ UNCHANGED <<delivered, fetchVars>>
        /\ DashboardRender(assignments, selectedCourse, searchQuery, key)

\* The page after its first render and the first run of the fetch effect,
\* the user authenticated: both requests are in flight.
DashboardInit ==
    /\ assignments = <<>>
    /\ selectedCourse = NULL
    /\ sortBy = "priority"
    /\ searchQuery = <<>>
    /\ filteredAssignments = <<>>
    /\ delivered = <<>>
    /\ courses = <<>>
    /\ loading = TRUE
    /\ error = NoError
    /\ coursesPending = 1
    /\ assignmentsPending = 1

\* One mounted page with one session: the responses arrive and the user
\* works the filter bar.
DashboardNext ==
    \/ fetchAssignmentsSuccess
    \/ fetchAssignmentsFailure
    \/ fetchCoursesSuccess
    \/ fetchCoursesFailure
    \/ setSelectedCourse
    \/ setSearchQuery
    \/ setSortBy

\* The session changes under the mounted page: the fetch effect runs again
\* and the responses arrive, the filter bar at rest.
DashboardFetchNext ==
    \/ dashboardEffect
    \/ fetchAssignmentsSuccess
    \/ fetchAssignmentsFailure
    \/ fetchCoursesSuccess
    \/ fetchCoursesFailure

\* ---------------------------------------------------------------------------
\* AssignmentRecommendations (memoized): recommendations
\* ---------------------------------------------------------------------------
DayMs == 24 * 60 * 60 * 1000

\* The assignment records the recommendations' fetch may deliver: due_at as
\* milliseconds on the clock `now` is read from.
RecRecords ==
    { [id |-> 1, due_at |-> 1 * DayMs, points_possible |-> 20, priority |-> 8],
      [id |-> 2, due_at |-> 2 * DayMs, points_possible |-> 5, priority |-> 9],
      [id |-> 3, due_at |-> 3 * DayMs, points_possible |-> 20, priority |-> 5],
      [id |-> 4, due_at |-> NULL, points_possible |-> 5, priority |-> 10],
      [id |-> 5, due_at |-> 0 - DayMs, points_possible |-> 0, priority |-> 8],
      [id |-> 1, due_at |-> NULL, points_possible |-> 15, priority |-> 3],
      [id |-> 6, due_at |-> 3 * DayMs - 1, points_possible |-> 10,
       priority |-> 8],
      [id |-> 7, due_at |-> NULL, points_possible |-> 10, priority |-> 2] }

\* Values of new Date() when the memo is computed.
Nows == {0, DayMs}

\* Mutant: ids placed in an earlier bucket are not excluded.
notUsed_Ignored(usedAssignmentIds, a) == TRUE

\* !usedAssignmentIds.has(a.id)
notUsed(usedAssignmentIds, a) == a.id \notin usedAssignmentIds

\* Mutant: a record due exactly 3 days after now counts as urgent.
isUrgent_Inclusive(a, now) ==
    a.due_at # NULL /\ a.due_at - now <= 3 * 24 * 60 * 60 * 1000

\* a.due_at && new Date(a.due_at).getTime() - now.getTime() < 3 * 24 * 60 * 60 * 1000
isUrgent(a, now) == a.due_at # NULL /\ a.due_at - now < 3 * 24 * 60 * 60 * 1000

ids(arr) == {arr[i].id : i \in 1 .. Len(arr)}

\* The body of useMemo: three greedy passes, each bucket pushed only when it
\* is not empty.
recommendationsMemo(arr, now) ==
    IF Len(arr) = 0 THEN <<>>
    ELSE
    LET urgentAssignments ==
            slice0(sort(SelectSeq(arr, LAMBDA a : isUrgent(a, now)), "urgent"), 3)
        used1 == ids(urgentAssignments)
        rec1 == IF Len(urgentAssignments) > 0
                THEN <<[title |-> "Urgent Assignments",
                        assignments |-> urgentAssignments]>>
                ELSE <<>>
        highImpactAssignments ==
            slice0(sort(SelectSeq(arr, LAMBDA a :
                            notUsed(used1, a) /\ a.points_possible > 10),
                        "high_impact"), 3)
        used2 == used1 \cup ids(highImpactAssignments)
        rec2 == IF Len(highImpactAssignments) > 0
                THEN Append(rec1, [title |-> "High Impact Assignments",
                                   assignments |-> highImpactAssignments])
                ELSE rec1
        quickWins ==
            slice0(sort(SelectSeq(arr, LAMBDA a :
                            /\ notUsed(used2, a)
                            /\ a.points_possible > 0
                            /\ a.points_possible <= 10),
                        "quick_wins"), 3)
    IN IF Len(quickWins) > 0
       THEN Append(rec2, [title |-> "Quick Wins", assignments |-> quickWins])
       ELSE rec2

\* The values of the prop courseId: 0 while no course is selected.
PanelCourseIds == {0, 1, 2}

RecOf(n) == CHOOSE r \in RecRecords : r.id = n

\* What the assignments endpoint holds for a course.
coursePayload(c) ==
    CASE c = 1 -> <<RecOf(2), RecOf(3)>>
      [] c = 2 -> <<RecOf(6)>>
      [] OTHER -> <<>>

RemoveAt(seq, k) == SubSeq(seq, 1, k - 1) \o SubSeq(seq, k + 1, Len(seq))

\* A fetchAssignments of the memoized version resolves with a 2xx response
\* (request k in flight, whatever course it asked for): setAssignments(data);
\* setLoading(false); the next render recomputes the memo, reading the clock.
memoResolved(k, data, now) ==
    /\ implementation = "memo"
    /\ recInFlight' = RemoveAt(recInFlight, k)
    /\ recLoading' = FALSE
    /\ recAssignments' = data
    /\ recommendations' = recommendationsMemo(data, now)
    /\ recNow' = IF Len(data) = 0 THEN recNow ELSE now
    /\ UNCHANGED <<implementation, componentLoading,
                   componentRecommendations, recCourseId, recError>>
    /\ UNCHANGED nonRecVars

fetchRecommendationsSuccess ==
    \E k \in 1 .. Len(recInFlight) :
      \E data \in DistinctSeqs(RecRecords, MaxRecs), now \in Nows :
        memoResolved(k, data, now)

\* The body of fetchRecommendations after a 2xx response: the buckets are
\* computed from the response, from two sorted copies and the response order.
generatedRecommendations(arr, now) ==
    LET assignmentsWithDueDates == SelectSeq(arr, LAMBDA a : a.due_at # NULL)
        sortedByDueDate == sort(assignmentsWithDueDates, "sortedByDueDate")
        sortedByPriority == sort(arr, "sortedByPriority")
        urgentAssignments ==
            slice0(SelectSeq(sortedByDueDate, LAMBDA a : isUrgent(a, now)), 3)
        rec1 == IF Len(urgentAssignments) > 0
                THEN <<[title |-> "Urgent Assignments",
                        assignments |-> urgentAssignments]>>
                ELSE <<>>
        highPriorityAssignments ==
            slice0(SelectSeq(sortedByPriority, LAMBDA a : a.priority > 7), 3)
        rec2 == IF Len(highPriorityAssignments) > 0
                THEN Append(rec1, [title |-> "High Impact Assignments",
                                   assignments |-> highPriorityAssignments])
                ELSE rec1
        quickWins ==
            slice0(SelectSeq(arr, LAMBDA a :
                        a.points_possible < 10 /\ a.points_possible > 0), 3)
    IN IF Len(quickWins) > 0
       THEN Append(rec2, [title |-> "Quick Wins", assignments |-> quickWins])
       ELSE rec2

\* A fetchRecommendations resolves with a 2xx response (request k in
\* flight): setRecommendations(generatedRecommendations); setLoading(false)
componentResolved(k, data, now) ==
    /\ implementation = "component"
    /\ recInFlight' = RemoveAt(recInFlight, k)
    /\ componentLoading' = FALSE
    /\ componentRecommendations' = generatedRecommendations(data, now)
    /\ UNCHANGED <<recAssignments, recLoading, recommendations, recNow,
                   implementation, recCourseId, recError>>
    /\ UNCHANGED nonRecVars

fetchRecommendations ==
    \E k \in 1 .. Len(recInFlight) :
      \E data \in DistinctSeqs(RecRecords, MaxRecs), now \in Nows :
        componentResolved(k, data, now)

\* A request resolves with what the endpoint holds for the course it asked
\* for.
fetchCourseSuccess ==
    \E k \in 1 .. Len(recInFlight), now \in Nows :
        \/ memoResolved(k, coursePayload(recInFlight[k]), now)
        \/ componentResolved(k, coursePayload(recInFlight[k]), now)

\* A request fails (the fetch rejects, the status is not 2xx or, in the
\* memoized version, the 5 s timer wins the race):
\* setError("Failed to generate assignment recommendations"); setLoading(false)
fetchCourseFailure ==
    \E k \in 1 .. Len(recInFlight) :
        /\ recInFlight' = RemoveAt(recInFlight, k)
        /\ recError' = "Failed to generate assignment recommendations"
        /\ IF implementation = "memo"
           THEN recLoading' = FALSE /\ UNCHANGED componentLoading
           ELSE componentLoading' = FALSE /\ UNCHANGED recLoading
        /\ UNCHANGED <<recAssignments, recommendations, recNow, implementation,
                       componentRecommendations, recCourseId>>
        /\ UNCHANGED nonRecVars

\* Mutant: the requests in flight are cancelled when a new one starts.
requestsAfterFetch_Cancelling(reqs, c) == <<c>>

\* The requests in flight after the fetch effect has run for course c: the
\* effect has no cleanup, the earlier requests stay.
requestsAfterFetch(reqs, c) == Append(reqs, c)

\* The memoized version returns from its effect when courseId === undefined,
\* the other version when !courseId.
effectFetches(version, c) == version = "memo" \/ c # 0

\* The dashboard's selected course changes: the panel's fetch effect runs
\* for the new courseId and its fetch starts with setLoading(true).
setCourseId ==
    \E c \in PanelCourseIds :
        /\ c # recCourseId
        /\ Len(recInFlight) < MaxRecInFlight
        /\ recCourseId' = c
        /\ IF effectFetches(implementation, c)
           THEN /\ recInFlight' = requestsAfterFetch(recInFlight, c)
                /\ IF implementation = "memo"
                   THEN recLoading' = TRUE /\ UNCHANGED componentLoading
                   ELSE componentLoading' = TRUE /\ UNCHANGED recLoading
           ELSE UNCHANGED <<recInFlight, recLoading, componentLoading>>
        /\ UNCHANGED <<recAssignments, recommendations, recNow, implementation,
                       componentRecommendations, recError>>
        /\ UNCHANGED nonRecVars

\* What the panel renders: if (loading) the spinner; if (error) the error
\* panel; else the recommendations.
recPanel ==
    LET busy == IF implementation = "memo" THEN recLoading ELSE componentLoading
    IN IF busy THEN "spinner"
       ELSE IF recError # NoError THEN "error"
       ELSE "recommendations"

\* The page mounts one AssignmentRecommendations (the repository holds two
\* versions of it) with the course selected by then; the mount effect has
\* run.
RecInit ==
    /\ recAssignments = <<>>
    /\ recLoading = TRUE
    /\ recommendations = <<>>
    /\ recNow = NULL
    /\ implementation \in {"memo", "component"}
    /\ componentLoading = TRUE
    /\ componentRecommendations = <<>>
    /\ recCourseId \in PanelCourseIds
    /\ recInFlight = IF effectFetches(implementation, recCourseId)
                     THEN <<recCourseId>> ELSE <<>>
    /\ recError = NoError

\* The first response, of any content.
RecNext ==
    \/ fetchRecommendationsSuccess
    \/ fetchRecommendations

\* The selected course changes and the endpoint answers for each course.
RecFetchNext ==
    \/ setCourseId
    \/ fetchCourseSuccess
    \/ fetchCourseFailure

\* ---------------------------------------------------------------------------
\* PomodoroPage: todoList and its urgency levels
\* ---------------------------------------------------------------------------
\* Due dates of the delivered assignments, as milliseconds on the clock.
TodoDues ==
    {NULL, 0 - DayMs, DayMs, 2 * DayMs, 2 * DayMs + 1, 5 * DayMs,
     5 * DayMs + 1, 6 * DayMs}

\* The assignments the courses' responses may deliver.
TodoRecords ==
    [due_at : TodoDues, has_submitted_submissions : BOOLEAN]

\* Mutant: the day count is rounded down.
getUrgencyLevel_Floor(dueDate, now) ==
    IF dueDate = NULL THEN "low"
    ELSE LET daysUntilDue == (dueDate - now) \div (1000 * 60 * 60 * 24)
         IN IF daysUntilDue <= 2 THEN "high"
            ELSE IF daysUntilDue <= 5 THEN "medium"
            ELSE "low"

\* getUrgencyLevel, with the value new Date() yields as second argument
getUrgencyLevel(dueDate, now) ==
    IF dueDate = NULL THEN "low"
    ELSE LET daysUntilDue == Ceil(dueDate - now, 1000 * 60 * 60 * 24)
         IN IF daysUntilDue <= 2 THEN "high"
            ELSE IF daysUntilDue <= 5 THEN "medium"
            ELSE "low"

\* fetchData resolves with 2xx responses: every delivered assignment becomes
\* a TodoItem with its urgency level (each call reads the clock: the item
\* keeps that reading as `now`), the submitted ones are dropped, the rest is
\* sorted by due date, undated last.
fetchData ==
    \E m \in 0 .. MaxTodo :
      \E data \in [1 .. m -> TodoRecords], nows \in [1 .. m -> Nows] :
        LET allAssignments ==
                [k \in 1 .. m |->
                    [due_at |-> data[k].due_at,
                     has_submitted_submissions |->
                         data[k].has_submitted_submissions,
                     isCompleted |-> FALSE,
                     urgencyLevel |-> getUrgencyLevel(data[k].due_at, nows[k]),
                     now |-> nows[k]]]
            flattenedAssignments ==
                sort(SelectSeq(allAssignments,
                               LAMBDA a : ~a.has_submitted_submissions),
                     "urgent")
        IN /\ todoLoading
           /\ todoList' = flattenedAssignments
           /\ todoLoading' = FALSE
           /\ UNCHANGED nonPomodoroVars

PomodoroInit ==
    /\ todoList = <<>>
    /\ todoLoading = TRUE

PomodoroNext == fetchData

\* ---------------------------------------------------------------------------
\* AssignmentCard: priority badge and on-demand summary
\* ---------------------------------------------------------------------------
\* The cards of the rendered list.
Cards == {1, 2}

\* Values of assignment.priority.
Priorities == {NULL, -2, 0, 3, 4, 6, 7, 9, 10, 12}

\* Values of data.summary in a 2xx response (null, the empty text, texts).
SummaryTexts == {NULLSTR, <<>>, <<"a">>, <<"b">>}

\* Values of assignment.summary in the list's records.
InitialSummaries == {NULLSTR, <<"b">>}

\* The truth value JavaScript gives an optional string.
truthy(str) == str # NULLSTR /\ str # <<>>

getPriorityLabel(priority) ==
    IF priority = NULL \/ priority = 0 THEN "No Priority"
    ELSE IF priority >= 10 THEN "Urgent"
    ELSE IF priority >= 7 THEN "High"
    ELSE IF priority >= 4 THEN "Medium"
    ELSE "Low"

\* {showSummary && (summary ? <p>{summary}</p> : <p>No summary available</p>)}
renderSummaryPanel(show, text) ==
    IF ~show THEN "hidden"
    ELSE IF truthy(text) THEN "summary"
    ELSE "No summary available"

\* Mutant: the checks of the summary are lost; a hidden, idle card loads.
requestIssued_WheneverShown(show, text, busy) == ~show /\ ~busy

\* toggleSummary calls loadSummary when !showSummary && !summary, and
\* loadSummary returns at once when summary || isLoading.
requestIssued(show, text, busy) ==
    /\ ~show /\ ~truthy(text)
    /\ ~(truthy(text) \/ busy)

\* Mutant: the failure is stored as the card's summary.
failedLoad_StoresError(text) == <<"b">>

\* The summary after a failed load: the catch block and the non-2xx path
\* write nothing.
failedLoad(text) == text

\* The render that follows the state updates of card c.
CardRender(c) ==
    /\ priorityLabel' =
          [priorityLabel EXCEPT ![c] = getPriorityLabel(cardAssignment[c].priority)]
    /\ summaryPanel' =
          [summaryPanel EXCEPT ![c] = renderSummaryPanel(showSummary'[c], summary'[c])]
    /\ UNCHANGED <<cardAssignment, endpointSilent>>
    /\ UNCHANGED nonCardVars

\* The click on "Show Summary" / "Hide Summary"
toggleSummary(c) ==
    LET issued == requestIssued(showSummary[c], summary[c], isLoading[c]) IN
    /\ isLoading' = [isLoading EXCEPT ![c] = IF issued THEN TRUE ELSE @]
    /\ pending' = [pending EXCEPT ![c] = IF issued THEN @ + 1 ELSE @]
    /\ showSummary' = [showSummary EXCEPT ![c] = ~@]
    /\ UNCHANGED summary
    /\ CardRender(c)

\* The summary request resolves with a 2xx response and its JSON body:
\* setSummary(data.summary); finally setIsLoading(false)
summaryLoaded(c) ==
    \E text \in SummaryTexts :
        /\ pending[c] > 0
        /\ ~endpointSilent
        /\ pending' = [pending EXCEPT ![c] = @ - 1]
        /\ summary' = [summary EXCEPT ![c] = text]
        /\ isLoading' = [isLoading EXCEPT ![c] = FALSE]
        /\ UNCHANGED showSummary
        /\ CardRender(c)

\* The summary request fails (fetch rejects, or the status is not 2xx):
\* finally setIsLoading(false)
summaryFailed(c) ==
    /\ pending[c] > 0
    /\ ~endpointSilent
    /\ pending' = [pending EXCEPT ![c] = @ - 1]
    /\ summary' = [summary EXCEPT ![c] = failedLoad(@)]
    /\ isLoading' = [isLoading EXCEPT ![c] = FALSE]
    /\ UNCHANGED showSummary
    /\ CardRender(c)

CardInit ==
    /\ cardAssignment \in [Cards -> [priority : Priorities,
                                     summary : InitialSummaries]]
    /\ showSummary = [c \in Cards |-> FALSE]
    /\ isLoading = [c \in Cards |-> FALSE]
    /\ summary = [c \in Cards |-> cardAssignment[c].summary]
    /\ pending = [c \in Cards |-> 0]
    /\ priorityLabel =
          [c \in Cards |-> getPriorityLabel(cardAssignment[c].priority)]
    /\ summaryPanel = [c \in Cards |-> "hidden"]
    /\ endpointSilent \in BOOLEAN

CardNext ==
    \E c \in Cards :
        \/ toggleSummary(c)
        \/ summaryLoaded(c)
        \/ summaryFailed(c)

\* ---------------------------------------------------------------------------
\* AuthProvider: the session and its copy in localStorage
\* ---------------------------------------------------------------------------
\* The keys the application uses in localStorage.
StorageKeys == {"canvas_token", "canvas_user_id", "canvasToken"}

\* Access tokens: the callers of login pass a text that is not empty.
Tokens ==
    UNION {[1 .. n -> Alphabet] : n \in 1 .. MaxTokenLen}

\* User ids: the Canvas id of the callback, 0 from the token form.
UserIds == {0, 7, 10, 42, 105, 990}

\* The result of parseInt on a text without leading digits.
NaN == -2000

DigitChars == <<"0", "1", "2", "3", "4", "5", "6", "7", "8", "9">>

\* The value of a decimal digit character, NaN for any other character.
digitValue(ch) ==
    IF \E d \in 1 .. 10 : DigitChars[d] = ch
    THEN (CHOOSE d \in 1 .. 10 : DigitChars[d] = ch) - 1
    ELSE NaN

\* Number.prototype.toString of an integer
RECURSIVE toString(_)
toString(n) ==
    IF n < 0 THEN <<"-">> \o toString(0 - n)
    ELSE IF n < 10 THEN <<DigitChars[n + 1]>>
    ELSE Append(toString(n \div 10), DigitChars[(n % 10) + 1])

\* The value of the longest prefix of decimal digits of str, read after the
\* digits of value acc.
RECURSIVE parseDigits(_, _, _)
parseDigits(str, k, acc) ==
    IF k > Len(str) \/ digitValue(str[k]) = NaN THEN acc
    ELSE parseDigits(str, k + 1, 10 * (IF acc = NaN THEN 0 ELSE acc)
                                  + digitValue(str[k]))

\* Mutant: only the first digit is read.
parseInt_FirstDigit(str) ==
    IF Len(str) = 0 THEN NaN ELSE digitValue(str[1])

\* parseInt(str, 10)
parseInt(str) ==
    IF Len(str) > 0 /\ str[1] = "-"
    THEN LET v == parseDigits(str, 2, NaN) IN IF v = NaN THEN NaN ELSE 0 - v
    ELSE parseDigits(str, 1, NaN)

\* localStorage.getItem
getItem(key) == localStorage[key]

\* login(newToken, newUserId)
login(newToken, newUserId) ==
    /\ localStorage' = [localStorage EXCEPT
                           !["canvas_token"] = newToken,
                           !["canvas_user_id"] = toString(newUserId)]
    /\ token' = newToken
    /\ userId' = newUserId
    /\ isAuthenticated' = TRUE
    /\ UNCHANGED <<route, assignmentsError>>
    /\ UNCHANGED nonAuthVars

\* Mutant: logout forgets the stored user id.
logout_KeepsUserId ==
    /\ localStorage' = [localStorage EXCEPT !["canvas_token"] = NULLSTR]
    /\ token' = NULLSTR
    /\ userId' = NULL
    /\ isAuthenticated' = FALSE
    /\ UNCHANGED <<route, assignmentsError>>
    /\ UNCHANGED nonAuthVars

\* logout()
logout ==
    /\ localStorage' = [localStorage EXCEPT
                           !["canvas_token"] = NULLSTR,
                           !["canvas_user_id"] = NULLSTR]
    /\ token' = NULLSTR
    /\ userId' = NULL
    /\ isAuthenticated' = FALSE
    /\ UNCHANGED <<route, assignmentsError>>
    /\ UNCHANGED nonAuthVars

\* The pages: the home page "/" holds the token form (the login page), the
\* others are protected.
Pages == {"home", "dashboard", "planner", "pomodoro"}
ProtectedPages == Pages \ {"home"}

\* The auth effect of a protected page, run when the page mounts:
\* if (!isAuthenticated) { router.push("/"); return; }
pageAfterMount(page, authenticated) ==
    IF page \in ProtectedPages /\ ~authenticated THEN "home" ELSE page

\* The key the planner's fetchAssignments reads its token from.
plannerTokenKey == "canvasToken"

\* The user follows a link to another page (the provider stays mounted) and
\* the page's mount effects run.  The planner's auth effect, finding
\* isAuthenticated, calls fetchAssignments, which looks the token up in
\* localStorage: without it setAssignmentsError(...); router.push("/"),
\* with it the assignments request is issued.
navigate ==
    \E page \in Pages \ {route} :
        LET landed == pageAfterMount(page, isAuthenticated) IN
        /\ IF landed = "planner" /\ ~truthy(getItem(plannerTokenKey))
           THEN /\ assignmentsError' =
                      "Authentication token not found. Please log in again."
                /\ route' = "home"
           ELSE /\ assignmentsError' = NoError
                /\ route' = landed
        /\ UNCHANGED <<isAuthenticated, token, userId, localStorage>>
        /\ UNCHANGED nonAuthVars

\* The home page mounted (or re-rendered) with a session:
\* if (isAuthenticated) router.push("/dashboard")
homeEffect ==
    /\ route = "home"
    /\ isAuthenticated
    /\ route' = "dashboard"
    /\ assignmentsError' = NoError
    /\ UNCHANGED <<isAuthenticated, token, userId, localStorage>>
    /\ UNCHANGED nonAuthVars

\* A page is loaded directly (or again): the provider is constructed anew
\* (unauthenticated, no token, no user id); in the mount commit the effects
\* of the page run before the effect of the provider around it, so the
\* page's auth check sees the initial isAuthenticated; then the provider's
\* mount effect reads the two keys; localStorage outlives the page.
loadPage(page) ==
    LET storedToken == getItem("canvas_token")
        storedUserId == getItem("canvas_user_id")
    IN /\ route' = pageAfterMount(page, FALSE)
       /\ assignmentsError' = NoError
       /\ IF truthy(storedToken) /\ truthy(storedUserId)
          THEN /\ token' = storedToken
               /\ userId' = parseInt(storedUserId)
               /\ isAuthenticated' = TRUE
          ELSE /\ token' = NULLSTR
               /\ userId' = NULL
               /\ isAuthenticated' = FALSE
       /\ UNCHANGED localStorage
       /\ UNCHANGED nonAuthVars

reloadPage == \E page \in Pages : loadPage(page)

\* The first load in a browser whose localStorage holds nothing of the
\* application.
AuthInit ==
    /\ isAuthenticated = FALSE
    /\ token = NULLSTR
    /\ userId = NULL
    /\ localStorage = [key \in StorageKeys |-> NULLSTR]
    /\ route = "home"
    /\ assignmentsError = NoError

AuthNext ==
    \/ \E newToken \in Tokens, newUserId \in UserIds :
          login(newToken, newUserId)
    \/ logout
    \/ reloadPage

\* The session and the pages the user moves between.
SessionNext ==
    \/ \E newToken \in Tokens, newUserId \in UserIds :
          login(newToken, newUserId)
    \/ logout
    \/ reloadPage
    \/ navigate
    \/ homeEffect

\* ---------------------------------------------------------------------------
\* Specifications: one per component, the other components at rest
\* ---------------------------------------------------------------------------
\* A component at rest is in one of its initial states.
RecAtRest == RecInit /\ implementation = "memo" /\ recCourseId = 0

CardAtRest ==
    /\ CardInit
    /\ cardAssignment = [c \in Cards |-> [priority |-> NULL, summary |-> NULLSTR]]
    /\ ~endpointSilent

Init ==
    /\ PlannerAtRest /\ DashboardInit /\ RecAtRest /\ PomodoroInit
    /\ CardAtRest /\ AuthInit

PlannerSpec == Init /\ [][PlannerNext]_vars

\* The planner with the history of the sessions worked on each task.
PlannerQuotaInit ==
    /\ PlannerInit /\ workedOn # <<>>
    /\ DashboardInit /\ RecAtRest /\ PomodoroInit /\ CardAtRest /\ AuthInit

PlannerQuotaSpec == PlannerQuotaInit /\ [][PlannerQuotaNext]_vars

DashboardSpec == Init /\ [][DashboardNext]_vars

DashboardFetchSpec == Init /\ [][DashboardFetchNext]_vars

\* Either version of the recommendations mounted, the rest at rest.
RecSpecInit ==
    /\ PlannerAtRest /\ DashboardInit /\ RecInit /\ PomodoroInit /\ CardAtRest
    /\ AuthInit

RecSpec == RecSpecInit /\ [][RecNext]_vars

RecFetchSpec == RecSpecInit /\ [][RecFetchNext]_vars

\* Every request is answered or fails.
RecLiveSpec ==
    RecFetchSpec /\ WF_vars(fetchCourseSuccess \/ fetchCourseFailure)

PomodoroSpec == Init /\ [][PomodoroNext]_vars

\* The cards of any list, the rest at rest.
CardSpecInit ==
    /\ PlannerAtRest /\ DashboardInit /\ RecAtRest /\ PomodoroInit /\ CardInit
    /\ AuthInit

CardSpec == CardSpecInit /\ [][CardNext]_vars

AuthSpec == Init /\ [][AuthNext]_vars

SessionSpec == Init /\ [][SessionNext]_vars

\* An endpoint that is not silent answers every request, with a response or
\* an error.
CardLiveSpec ==
    /\ CardSpec
    /\ \A c \in Cards : WF_vars(summaryLoaded(c) \/ summaryFailed(c))

\* ---------------------------------------------------------------------------
\* Properties of the focus planner timer
\* ---------------------------------------------------------------------------
Breaks == {"short_break", "long_break"}

\* A completion transition is the only way the phase changes.
WorkToBreak == timerType = "work" /\ timerType' \in Breaks
BreakToWork == timerType \in Breaks /\ timerType' = "work"

\* The full duration of a phase as the specification states it (mm:ss).
FullDuration(type) ==
    CASE type = "work" -> 1500
      [] type = "short_break" -> 300
      [] type = "long_break" -> 900

\* C2 (as claimed): every skip, running or paused, is followed at once by the
\* completion transition of the current phase: the phase changes and the
\* remaining time is reloaded to the new phase's duration.
C2_SkipAlwaysCompletes ==
    [][skipTimer =>
          /\ timerType' # timerType
          /\ timeRemaining' = FullDuration(timerType')]_vars

\* C3: a work completion enters long_break exactly when the incremented
\* sessionsCompleted is a multiple of 4 and short_break otherwise, a break
\* completion enters work; hence long_break is first entered on the 4th work
\* completion and never while fewer than 4 sessions are completed.
C3_PhaseRule ==
    /\ [](timerType = "long_break" =>
             sessionsCompleted >= 4 /\ sessionsCompleted % 4 = 0)
    /\ [][/\ timerType = "work" /\ timerType' # "work" =>
               /\ sessionsCompleted' = sessionsCompleted + 1
               /\ timerType' = IF sessionsCompleted' % 4 = 0
                               THEN "long_break" ELSE "short_break"
          /\ timerType # "work" /\ timerType' # timerType =>
               timerType' = "work"]_vars

C3_Witness ==
    timerType = "long_break" /\ sessionsCompleted = 4 /\ timeRemaining = 900

\* C4 (as claimed): the timer never rests with remaining time 0: whenever the
\* remaining time is 0 the completion transition has been taken.
C4_NeverRestsAtZero == timeRemaining # 0

\* C5: sessionsCompleted never decreases; it changes only in a work-to-break
\* completion, and there by exactly +1.
C5_SessionsMonotonic ==
    [][/\ sessionsCompleted' >= sessionsCompleted
       /\ WorkToBreak => sessionsCompleted' = sessionsCompleted + 1
       /\ ~WorkToBreak => sessionsCompleted' = sessionsCompleted]_vars

C5_Witness == sessionsCompleted = 2 /\ timerType = "short_break"

\* C6: every completion leaves the timer stopped (running flag false, no
\* interval installed); the flag turns true only by the user's start, and an
\* interval (hence a tick) exists only while the flag is true.
C6_NoAutoChain ==
    /\ [](timerRef => isTimerRunning)
    /\ [][/\ timerType' # timerType => ~isTimerRunning' /\ ~timerRef'
          /\ ~isTimerRunning /\ isTimerRunning' =>
               /\ timerType' = timerType
               /\ timeRemaining' = timeRemaining
               /\ sessionsCompleted' = sessionsCompleted
               /\ dailyTasks' = dailyTasks
               /\ currentTaskIndex' = currentTaskIndex]_vars

C6_Witness ==
    /\ timerType = "short_break" /\ sessionsCompleted = 1
    /\ timeRemaining < 300 /\ isTimerRunning

\* C7: reset stops the timer, reloads the full duration of the current phase
\* and leaves phase, sessionsCompleted and currentTaskIndex unchanged.
C7_ResetFrame ==
    [][resetTimer =>
          /\ ~isTimerRunning' /\ ~timerRef'
          /\ timeRemaining' = FullDuration(timerType)
          /\ timerType' = timerType
          /\ sessionsCompleted' = sessionsCompleted
          /\ currentTaskIndex' = currentTaskIndex]_vars

\* A reset that takes effect in the middle of a running short break.
C7_Witness ==
    ENABLED (/\ timerType = "short_break" /\ isTimerRunning
             /\ timeRemaining < 300
             /\ resetTimer
             /\ timeRemaining' = 300)

\* C8 (as claimed): currentTaskIndex changes only in a work-to-break
\* completion that satisfies the current task's quota, and then by +1.
C8_OnlyCompletionMovesTask ==
    [][currentTaskIndex' # currentTaskIndex =>
          /\ WorkToBreak
          /\ currentTaskIndex' = currentTaskIndex + 1
          /\ sessionsCompleted'
                % Ceil(dailyTasks[currentTaskIndex + 1].estimated_duration, 25) = 0
      ]_vars

\* The step is a work-to-break completion that found task j current with the
\* incremented sessionsCompleted a multiple of its ceil(estimated_duration / 25)
\* and another task after it.
C8_QuotaMet(j) ==
    /\ WorkToBreak
    /\ j + 1 < Len(dailyTasks')
    /\ sessionsCompleted' % Ceil(dailyTasks'[j + 1].estimated_duration, 25) = 0

C8_Advance(j) ==
    /\ C8_QuotaMet(j)
    /\ dailyTasks'[j + 1].completed
    /\ currentTaskIndex' = j + 1

\* C8 (amended): currentTaskIndex changes only (1) in a work-to-break
\* completion in which the incremented sessionsCompleted is a multiple of the
\* current task's ceil(estimated_duration / 25) and another task remains, by
\* exactly +1; (2) by a click on a task that is not completed, to that task's
\* index; (3) by un-marking a completed task that is not the current one, to
\* that task's index.  A click or un-mark that finds the timer due for
\* completion is followed by (1) in the same update.
C8_TaskIndexMoves ==
    [][currentTaskIndex' # currentTaskIndex =>
          \/ C8_Advance(currentTaskIndex)
          \/ \E j \in (0 .. Len(dailyTasks) - 1) \ {currentTaskIndex} :
                /\ \/ C8_Advance(j)
                   \/ currentTaskIndex' = j /\ ~C8_QuotaMet(j)
                /\ ~WorkToBreak =>
                      dailyTasks' =
                          IF dailyTasks[j + 1].completed
                          THEN [dailyTasks EXCEPT ![j + 1].completed = FALSE]
                          ELSE dailyTasks
      ]_vars

\* The completion of the second work session has marked the first task and
\* moved on to the second.
C8_Witness ==
    /\ Len(dailyTasks) = 2 /\ currentTaskIndex = 1
    /\ dailyTasks[1].completed /\ ~dailyTasks[2].completed
    /\ sessionsCompleted = 2 /\ timerType = "short_break" /\ timeRemaining = 300

\* ---------------------------------------------------------------------------
\* Properties of the recommendation bucketer
\* ---------------------------------------------------------------------------
\* C1: in one bucketing pass no assignment id appears in more than one of
\* the buckets Urgent, High Impact and Quick Wins.
C1_DisjointBuckets ==
    \A i, j \in 1 .. Len(recommendations) :
        i # j => ids(recommendations[i].assignments)
                    \cap ids(recommendations[j].assignments) = {}

\* A record placed in Urgent also qualifies for High Impact (points > 10),
\* and a High Impact bucket was emitted in the same pass.
C1_Witness ==
    /\ Len(recommendations) >= 2
    /\ recommendations[1].title = "Urgent Assignments"
    /\ recommendations[2].title = "High Impact Assignments"
    /\ \E k \in 1 .. Len(recommendations[1].assignments) :
          recommendations[1].assignments[k].points_possible > 10

\* ---------------------------------------------------------------------------
\* Properties of the dashboard view
\* ---------------------------------------------------------------------------
\* C9: computing the filtered and sorted view never changes the stored
\* assignments list: it holds the records, in the order, of the last
\* successful fetch.
C9_SourceUntouched == assignments = delivered

\* A render whose view orders the records differently from the source.
C9_Witness ==
    /\ Len(assignments) >= 2
    /\ Len(filteredAssignments) = Len(assignments)
    /\ filteredAssignments # assignments
    /\ sortBy = "due_date"

upperChar(c) == CASE c = "a" -> "A" [] c = "b" -> "B" [] OTHER -> c

\* q occurs in text when letter case is disregarded
C10_OccursIn(q, text) ==
    \E from \in 1 .. Len(text) + 1 :
        /\ from + Len(q) - 1 <= Len(text)
        /\ \A k \in 1 .. Len(q) : upperChar(text[from + k - 1]) = upperChar(q[k])

C10_Passes(r) ==
    /\ selectedCourse = NULL \/ r.course_id = selectedCourse
    /\ \/ searchQuery = <<>>
       \/ C10_OccursIn(searchQuery, r.name)
       \/ C10_OccursIn(searchQuery, r.course_name)
       \/ r.description # NULLSTR /\ C10_OccursIn(searchQuery, r.description)

C10_Count(seq, r) == Cardinality({k \in 1 .. Len(seq) : seq[k] = r})

\* C10: the view holds exactly the records of the list that pass the course
\* filter and the case-insensitive search (over name, course name or
\* description), each exactly once, and no other record.
C10_ViewIsFilter ==
    \A r \in DashboardRecords :
        C10_Count(filteredAssignments, r) =
            IF r \in Range(assignments) /\ C10_Passes(r) THEN 1 ELSE 0

\* A course is selected and the search text, with an upper-case letter,
\* keeps some records of the list and drops others.
C10_Witness ==
    /\ selectedCourse = 2
    /\ searchQuery = <<"A", "b">>
    /\ Len(filteredAssignments) >= 1
    /\ Len(filteredAssignments) < Len(assignments)
    /\ \E k \in 1 .. Len(assignments) :
          assignments[k].course_id = 2 /\ assignments[k] \notin Range(filteredAssignments)

\* The place of a record in the stored list (records of a list are distinct).
C11_Pos(r) == CHOOSE k \in 1 .. Len(assignments) : assignments[k] = r

\* r comes strictly before s under the selected sort key.
C11_Before(r, s) ==
    CASE sortBy = "priority" ->
            (IF r.priority = NULL THEN 0 ELSE r.priority)
                > (IF s.priority = NULL THEN 0 ELSE s.priority)
      [] sortBy = "points" ->
            (IF r.points_possible = NULL THEN 0 ELSE r.points_possible)
                > (IF s.points_possible = NULL THEN 0 ELSE s.points_possible)
      [] sortBy = "due_date" ->
            /\ r.due_at # NULL
            /\ s.due_at = NULL \/ r.due_at < s.due_at

\* C11: the view is a stable sort of the filtered records: by descending
\* priority (absent as 0), by descending points (absent as 0), or by
\* ascending due date with the records without due date after every dated
\* one; records that compare equal, the undated ones among them, keep the
\* order they have in the stored list.
C11_StableSorted ==
    \A i, j \in 1 .. Len(filteredAssignments) :
        i < j =>
            LET r == filteredAssignments[i]
                s == filteredAssignments[j]
            IN /\ ~C11_Before(s, r)
               /\ ~C11_Before(r, s) => C11_Pos(r) < C11_Pos(s)

\* Sorted by due date, the view ends with two undated records in the order of
\* the stored list, which holds a dated record after them.
C11_Witness ==
    /\ sortBy = "due_date"
    /\ Len(filteredAssignments) = 3
    /\ filteredAssignments[1].due_at # NULL
    /\ filteredAssignments[2].due_at = NULL
    /\ filteredAssignments[3].due_at = NULL
    /\ assignments[3] = filteredAssignments[1]
    /\ assignments[1] = filteredAssignments[2]

\* ---------------------------------------------------------------------------
\* Properties of the recommendation buckets
\* ---------------------------------------------------------------------------
\* The number of the places of Q whose record comes before the record at k
\* under Less, ties going to the earlier place.
C12_Rank(arr, Q, k, Less(_, _)) ==
    Cardinality({m \in Q : \/ Less(arr[m], arr[k])
                           \/ ~Less(arr[k], arr[m]) /\ m < k})

\* The first 3 records, under Less, of the places Q of arr.
C12_FirstThree(arr, Q, Less(_, _)) ==
    [i \in 1 .. Min(3, Cardinality(Q)) |->
        arr[CHOOSE k \in Q : C12_Rank(arr, Q, k, Less) = i - 1]]

C12_Urgent(arr, now) ==
    C12_FirstThree(arr,
        {k \in 1 .. Len(arr) :
            arr[k].due_at # NULL /\ arr[k].due_at < now + 3 * DayMs},
        LAMBDA r, t : r.due_at < t.due_at)

C12_HighImpact(arr, now) ==
    C12_FirstThree(arr,
        {k \in 1 .. Len(arr) :
            /\ arr[k].id \notin ids(C12_Urgent(arr, now))
            /\ arr[k].points_possible > 10},
        LAMBDA r, t : r.points_possible > t.points_possible)

C12_QuickWins(arr, now) ==
    C12_FirstThree(arr,
        {k \in 1 .. Len(arr) :
            /\ arr[k].id \notin ids(C12_Urgent(arr, now))
                                \cup ids(C12_HighImpact(arr, now))
            /\ arr[k].points_possible > 0
            /\ arr[k].points_possible <= 10},
        LAMBDA r, t : r.points_possible < t.points_possible)

\* The assignments of the emitted bucket of that title, none when the bucket
\* was not emitted.
C12_Bucket(title) ==
    LET at == {i \in 1 .. Len(recommendations) :
                  recommendations[i].title = title}
    IN IF at = {} THEN <<>>
       ELSE recommendations[CHOOSE i \in at : TRUE].assignments

\* C12: for every assignment list and clock value the memoized bucketer
\* returns the three greedy passes: Urgent, the first 3 by ascending due date
\* of the records due less than 3 days after now (overdue ones included);
\* High Impact, the first 3 by descending points of the unused records with
\* points > 10; Quick Wins, the first 3 by ascending points of the unused
\* records with 0 < points <= 10.
C12_MemoIsGreedy ==
    /\ C12_Bucket("Urgent Assignments") = C12_Urgent(recAssignments, recNow)
    /\ C12_Bucket("High Impact Assignments")
            = C12_HighImpact(recAssignments, recNow)
    /\ C12_Bucket("Quick Wins") = C12_QuickWins(recAssignments, recNow)

\* All three buckets are emitted; a record with more than 10 points is in
\* Urgent, and Quick Wins holds a 5 point record before a 10 point record
\* that precedes it in the list.
C12_Witness ==
    /\ Len(recommendations) = 3
    /\ \E k \in 1 .. Len(recommendations[1].assignments) :
          recommendations[1].assignments[k].points_possible > 10
    /\ Len(recommendations[3].assignments) = 2
    /\ recommendations[3].assignments[1].points_possible = 5
    /\ recommendations[3].assignments[2].points_possible = 10
    /\ \E i, j \in 1 .. Len(recAssignments) :
          /\ i < j
          /\ recAssignments[i] = recommendations[3].assignments[2]
          /\ recAssignments[j] = recommendations[3].assignments[1]

\* The place of a bucket in the order Urgent, High Impact, Quick Wins.
C13_Place(title) ==
    CASE title = "Urgent Assignments" -> 1
      [] title = "High Impact Assignments" -> 2
      [] title = "Quick Wins" -> 3
      [] OTHER -> 0

C13_WellFormed(recs) ==
    /\ \A i \in 1 .. Len(recs) :
          /\ Len(recs[i].assignments) >= 1
          /\ Len(recs[i].assignments) <= 3
          /\ C13_Place(recs[i].title) \in 1 .. 3
    /\ \A i, j \in 1 .. Len(recs) :
          i < j => C13_Place(recs[i].title) < C13_Place(recs[j].title)

\* C13: every bucket either version of the bucketer emits holds between 1
\* and 3 assignments (a bucket without qualifying record is not emitted),
\* and the emitted buckets are in the order Urgent, High Impact, Quick Wins.
C13_BucketsWellFormed ==
    /\ C13_WellFormed(recommendations)
    /\ C13_WellFormed(componentRecommendations)

\* Four records of priority above 7 were delivered and High Impact, between
\* the two other buckets, holds three of them.
C13_Witness ==
    /\ ~componentLoading
    /\ Len(componentRecommendations) = 3
    /\ Len(componentRecommendations[2].assignments) = 3
    /\ \A k \in 1 .. 3 :
          componentRecommendations[2].assignments[k].priority > 7
    /\ \E k \in 1 .. Len(componentRecommendations[1].assignments) :
          /\ componentRecommendations[1].assignments[k].priority > 7
          /\ componentRecommendations[1].assignments[k]
                \notin Range(componentRecommendations[2].assignments)

\* ---------------------------------------------------------------------------
\* Properties of the Pomodoro page's urgency levels
\* ---------------------------------------------------------------------------
\* C15: an item's urgency level is high when the time from now until its due
\* date is at most 2 days, medium when it is more than 2 and at most 5 days,
\* low when it is more than 5 days, and low without due date whatever now.
C15_UrgencyByTimeLeft ==
    \A k \in 1 .. Len(todoList) :
        LET item == todoList[k]
            timeLeft == item.due_at - item.now
        IN item.urgencyLevel =
              IF item.due_at = NULL THEN "low"
              ELSE IF timeLeft <= 2 * DayMs THEN "high"
              ELSE IF timeLeft <= 5 * DayMs THEN "medium"
              ELSE "low"

\* An item due one millisecond more than 2 days after now is medium and one
\* due exactly 5 days after now is medium as well.
C15_Witness ==
    /\ Len(todoList) = 2
    /\ todoList[1].due_at - todoList[1].now = 2 * DayMs + 1
    /\ todoList[1].urgencyLevel = "medium"
    /\ todoList[2].due_at - todoList[2].now = 5 * DayMs
    /\ todoList[2].urgencyLevel = "medium"

\* ---------------------------------------------------------------------------
\* Properties of the assignment cards
\* ---------------------------------------------------------------------------
\* C14 (as claimed): a card's priority label follows inclusive lower bounds:
\* Urgent from 10, High from 7, Medium from 4, Low for every other present
\* value, 0 and the negative ones included; No Priority only when absent.
C14_LabelByLowerBounds ==
    \A c \in Cards :
        LET priority == cardAssignment[c].priority IN
        priorityLabel[c] =
            IF priority = NULL THEN "No Priority"
            ELSE IF priority >= 10 THEN "Urgent"
            ELSE IF priority >= 7 THEN "High"
            ELSE IF priority >= 4 THEN "Medium"
            ELSE "Low"

\* C16: once a card holds a summary, no later step (show, hide, response)
\* changes it or issues another summary request.
C16_SummarySetOnce ==
    [][\A c \in Cards :
          truthy(summary[c]) =>
              /\ summary'[c] = summary[c]
              /\ pending'[c] <= pending[c]
              /\ isLoading'[c] = isLoading[c]]_vars

\* A card whose record came without summary has fetched one, and was hidden
\* and shown again since: the panel shows the summary and nothing is in
\* flight.
C16_Witness ==
    /\ cardAssignment[1].summary = NULLSTR
    /\ summary[1] = <<"a">>
    /\ showSummary[1]
    /\ pending[1] = 0
    /\ ~isLoading[1]
    /\ summaryPanel[1] = "summary"
    /\ ENABLED toggleSummary(1)

\* C18 (as claimed): a card that is loading its summary stops loading even
\* when the summary endpoint never answers.
C18_LoadingEnds ==
    \A c \in Cards : isLoading[c] ~> ~isLoading[c]

\* C19: a failed summary request (network error or non-2xx status) leaves
\* its card not loading and without summary, with the placeholder
\* 'No summary available' when the card is expanded; nothing else changes:
\* not the other cards, not the dashboard's list nor its error.
C19_FailureDegrades ==
    [][\A c \in Cards :
          summaryFailed(c) =>
              /\ ~isLoading'[c]
              /\ ~truthy(summary'[c])
              /\ showSummary'[c] => summaryPanel'[c] = "No summary available"
              /\ \A d \in Cards \ {c} :
                    /\ summary'[d] = summary[d]
                    /\ isLoading'[d] = isLoading[d]
                    /\ showSummary'[d] = showSummary[d]
                    /\ summaryPanel'[d] = summaryPanel[d]
              /\ UNCHANGED dashboardVars]_vars

\* Card 1 is expanded, its request has failed and it shows the placeholder,
\* while card 2 shows the summary it fetched.
C19_Witness ==
    /\ showSummary[1]
    /\ ~isLoading[1]
    /\ pending[1] = 0
    /\ summary[1] = NULLSTR
    /\ summaryPanel[1] = "No summary available"
    /\ cardAssignment[2].summary = NULLSTR
    /\ summary[2] = <<"a">>
    /\ summaryPanel[2] = "summary"

\* ---------------------------------------------------------------------------
\* Properties of the dashboard's fetches
\* ---------------------------------------------------------------------------
\* C17 (as claimed): a failed fetch of courses or of assignments sets the
\* error string, ends loading and leaves both collections as they were.
C17_FailureEndsLoading ==
    [][fetchCoursesFailure \/ fetchAssignmentsFailure =>
          /\ error' # NoError
          /\ ~loading'
          /\ assignments' = assignments
          /\ courses' = courses]_vars

\* C17 (amended): a failed fetch sets the error string and leaves both
\* collections as they were; a failed assignments fetch also ends loading,
\* a failed courses fetch leaves the loading flag alone.  A collection
\* changes only when a response of its fetch arrives without error, to the
\* whole payload.
C17_FailureKeepsCollections ==
    [][/\ fetchCoursesFailure =>
             /\ error' = "Failed to load courses"
             /\ loading' = loading
             /\ assignments' = assignments
             /\ courses' = courses
       /\ fetchAssignmentsFailure =>
             /\ error' = "Failed to load assignments"
             /\ ~loading'
             /\ assignments' = assignments
             /\ courses' = courses
       /\ assignments' # assignments =>
             /\ assignmentsPending' = assignmentsPending - 1
             /\ assignments' = delivered'
             /\ error' = error
       /\ courses' # courses =>
             /\ coursesPending' = coursesPending - 1
             /\ courses' \in CourseLists
             /\ error' = error]_vars

\* In a later run of the effect the assignments fetch has failed: the page
\* shows the error, is not loading and holds the collections of the earlier
\* run.
C17_Witness ==
    /\ error = "Failed to load assignments"
    /\ ~loading
    /\ assignmentsPending = 0
    /\ Len(assignments) = 2
    /\ Len(courses) = 2

\* ---------------------------------------------------------------------------
\* Properties of the session
\* ---------------------------------------------------------------------------
\* C20: login(token, userId) stores the session under the keys canvas_token
\* and canvas_user_id and no other; a reload of the page restores the
\* session that was held (same token, same user id, authenticated), and
\* after logout a reload yields the unauthenticated state.
C20_ReloadRestoresSession ==
    [][/\ \A newToken \in Tokens, newUserId \in UserIds :
             login(newToken, newUserId) =>
                 /\ token' = newToken /\ userId' = newUserId
                 /\ isAuthenticated'
                 /\ localStorage'["canvas_token"] = newToken
                 /\ localStorage'["canvas_user_id"] # NULLSTR
                 /\ \A key \in StorageKeys \ {"canvas_token", "canvas_user_id"} :
                       localStorage'[key] = NULLSTR
       /\ logout => ~isAuthenticated'
       /\ reloadPage =>
             /\ isAuthenticated' = isAuthenticated
             /\ token' = token
             /\ userId' = userId
             /\ localStorage' = localStorage
             /\ ~isAuthenticated' => token' = NULLSTR /\ userId' = NULL]_vars

\* The session of the token form (user id 0) is held and stored, and the
\* page can be loaded again.
C20_Witness ==
    /\ isAuthenticated
    /\ userId = 0
    /\ token = <<"a", "B">>
    /\ localStorage["canvas_user_id"] = <<"0">>
    /\ localStorage["canvas_token"] = <<"a", "B">>
    /\ ENABLED reloadPage

\* ---------------------------------------------------------------------
\* Overlapping fetches of the recommendations panel
\* ---------------------------------------------------------------------

C21_Count(seq, c) == Cardinality({i \in 1 .. Len(seq) : seq[i] = c})

\* The request for course c has left the requests in flight in this step.
C21_Left(c) ==
    /\ C21_Count(recInFlight', c) = C21_Count(recInFlight, c) - 1
    /\ \A d \in PanelCourseIds \ {c} :
           C21_Count(recInFlight', d) = C21_Count(recInFlight, d)

\* C21: when fetches of the memoized recommendations component overlap,
\* a course change cancels none of the requests in flight (they stay, in
\* order, before the new one), and each successful response overwrites the
\* assignments state with the payload of the course it asked for, so that
\* after all have resolved the state is the payload of the response that
\* resolved last, also when that is the older course.
C21_LastResponseWins ==
    [][ /\ (implementation = "memo" /\ recCourseId' # recCourseId)
            => /\ Len(recInFlight') = Len(recInFlight) + 1
               /\ SubSeq(recInFlight', 1, Len(recInFlight)) = recInFlight
               /\ recInFlight'[Len(recInFlight')] = recCourseId'
        /\ (implementation = "memo" /\ fetchCourseSuccess)
            => \E c \in PanelCourseIds :
                   /\ C21_Left(c)
                   /\ recAssignments' = coursePayload(c)
                   /\ recCourseId' = recCourseId ]_vars

\* Both overlapping requests have resolved and the assignments shown are
\* those of the older course, not of the course now selected.
C21_Witness ==
    /\ implementation = "memo"
    /\ recInFlight = <<>>
    /\ ~recLoading
    /\ recError = NoError
    /\ recCourseId = 2
    /\ recAssignments = coursePayload(1)

\* ---------------------------------------------------------------------
\* Ticks of the focus planner timer
\* ---------------------------------------------------------------------

\* C22: a tick happens only while the timer is running; it lowers the
\* remaining time by exactly 1 and never below 0 (a tick at 0 changes
\* nothing, the tick from 1 reaches 0 and the completion transition that
\* follows in the same commit reloads the next phase); in every reachable
\* state 0 <= timeRemaining <= full duration of the current phase.
C22_TickBounds ==
    /\ [](0 <= timeRemaining /\ timeRemaining <= FullDuration(timerType))
    /\ [][Tick =>
            /\ isTimerRunning
            /\ timeRemaining > 1 =>
                   /\ timeRemaining' = timeRemaining - 1
                   /\ timerType' = timerType
                   /\ isTimerRunning'
            /\ timeRemaining = 1 =>
                   /\ timerType' # timerType
                   /\ timeRemaining' = FullDuration(timerType')
            /\ timeRemaining = 0 => UNCHANGED plannerVars]_vars

\* The timer is running in the middle of a phase: ticks have lowered the
\* remaining time.
C22_Witness ==
    /\ isTimerRunning /\ timerRef
    /\ 0 < timeRemaining /\ timeRemaining < FullDuration(timerType)
    /\ sessionsCompleted = 1

\* ---------------------------------------------------------------------
\* The session quota of a task
\* ---------------------------------------------------------------------

\* C23 (as claimed): when the timer marks a task completed, at least
\* ceil(estimated_duration / 25) work sessions have completed while that
\* task was the current task.
C23_QuotaWorkedOnTask ==
    [][(skipTimer \/ Tick) =>
          \A j \in 1 .. Len(dailyTasks) :
              (~dailyTasks[j].completed /\ dailyTasks'[j].completed)
                  => workedOn'[j] >= sessionsNeeded(dailyTasks[j])]_vars

\* ---------------------------------------------------------------------
\* The session and the protected pages
\* ---------------------------------------------------------------------

C24_SessionStored ==
    /\ getItem("canvas_token") # NULLSTR
    /\ getItem("canvas_user_id") # NULLSTR

\* C24 (as claimed): when the planner mounts with the session that login
\* has stored, its fetchAssignments finds the token and issues the request;
\* the "Authentication token not found" branch with its redirect to the
\* login page is taken only when no session is stored.
C24_PlannerFindsSession ==
    [][(navigate /\ assignmentsError' # NoError)
          => ~C24_SessionStored]_vars

\* C27 (as claimed): a user whose token and user id are in local storage
\* and who loads a protected page directly is not sent to the login page:
\* the page's isAuthenticated check does not run before rehydration.
C27_StoredSessionStays ==
    [][\A page \in ProtectedPages :
          (loadPage(page) /\ C24_SessionStored) => route' = page]_vars

\* ---------------------------------------------------------------------
\* Errors and loading of the recommendations panel
\* ---------------------------------------------------------------------

\* C25 (as claimed): a fetch that succeeds after an earlier fetch has failed
\* clears the error, so that the panel shows the recommendations of the
\* successful response and not the error panel.
C25_SuccessClearsError ==
    [][fetchCourseSuccess =>
          /\ recError' = NoError
          /\ recPanel' = "recommendations"]_vars

\* C26 (as claimed): the panel mounted by the dashboard (the component
\* version) eventually leaves its loading state, whatever the selected
\* course, also when none is selected and courseId is 0.
C26_LoadingEnds ==
    (implementation = "component" /\ componentLoading) ~> ~componentLoading

C28_IdList(arr) == [k \in 1 .. Len(arr) |-> arr[k].id]

\* C28 (as claimed): the two versions of AssignmentRecommendations produce
\* the same buckets (same titles, same ordered assignment ids) for every
\* assignment list and value of now.
C28_SameBuckets ==
    (implementation = "memo" /\ recNow # NULL)
        => LET other == generatedRecommendations(recAssignments, recNow)
           IN /\ Len(other) = Len(recommendations)
              /\ \A k \in 1 .. Len(other) :
                    /\ other[k].title = recommendations[k].title
                    /\ C28_IdList(other[k].assignments)
                           = C28_IdList(recommendations[k].assignments)

\* ---------------------------------------------------------------------
\* The current task of the focus planner
\* ---------------------------------------------------------------------

\* C29: whenever the task list is not empty, currentTaskIndex is the index
\* of one of its tasks (0 <= currentTaskIndex < dailyTasks.length), after
\* any sequence of timer completions, task clicks and completion toggles.
C29_IndexInRange ==
    Len(dailyTasks) > 0
        => 0 <= currentTaskIndex /\ currentTaskIndex < Len(dailyTasks)

\* The timer has completed the last task of the list and the index has
\* stayed on it.
C29_Witness ==
    /\ Len(dailyTasks) = MaxTasks
    /\ currentTaskIndex = Len(dailyTasks) - 1
    /\ \A j \in 1 .. Len(dailyTasks) : dailyTasks[j].completed
    /\ timerType # "work"

\* ---------------------------------------------------------------------
\* The session held and the session stored
\* ---------------------------------------------------------------------

\* C30: once the provider has rehydrated, through every sequence of login,
\* logout and page loads, isAuthenticated is true exactly when token is not
\* null, exactly when userId is not null, and exactly when both canvas_token
\* and canvas_user_id are stored (neither key is stored alone); logout
\* clears all of them together.
C30_SessionConsistent ==
    /\ [](/\ isAuthenticated = (token # NULLSTR)
          /\ isAuthenticated = (userId # NULL)
          /\ isAuthenticated = (getItem("canvas_token") # NULLSTR)
          /\ isAuthenticated = (getItem("canvas_user_id") # NULLSTR)
          /\ isAuthenticated => /\ getItem("canvas_token") = token
                                /\ userId # NaN)
    /\ [][logout =>
            /\ ~isAuthenticated' /\ token' = NULLSTR /\ userId' = NULL
            /\ getItem("canvas_token")' = NULLSTR
            /\ getItem("canvas_user_id")' = NULLSTR]_vars

\* A session of the OAuth callback is held and stored.
C30_Witness ==
    /\ isAuthenticated
    /\ userId = 105
    /\ token = <<"B">>
    /\ getItem("canvas_user_id") = <<"1", "0", "5">>

====
